---- MODULE Spec2Model ----
\* Bed<TUPLETYPE> of NaTa_bed.hpp: a record of text / int32 / char fields,
\* its tab-separated text form, its ordering and its stream protocol.
\* A character is its ASCII code; a std::string is a sequence of codes.
\* Tuple positions run from 1 here (std::get<N-1> in the source).
EXTENDS Integers, Sequences, FiniteSets, TLC

VARIABLES
    schema,    \* TUPLETYPE: the field types, fixed for a behaviour
    data,      \* Bed::data of the record being read into / written
    c,         \* the std::vector<Bed> handed to dump
    os,        \* the characters written to the output stream so far
    is,        \* the characters of the input stream not yet extracted
    eofbit,    \* the input stream's eofbit
    failbit,   \* the input stream's failbit
    in,        \* get_obj's local `in`: the line it read last
    v,         \* get_obj's local `v`: the tokens of that line
    op,        \* the operation performed last
    result,    \* how that operation ended
    ub,        \* TRUE once to_tuple has indexed rhs past its end
    cmp,       \* the operands of the last operator< (positions in Pool)
    lt         \* what the last operator< returned

vars == <<schema, data, c, os, is, eofbit, failbit, in, v, op, result, ub, cmp, lt>>

----------------------------------------------------------------------------
\* Characters and limits

NUL == 0
TAB == 9
NL == 10
SPACE == 32
PLUS == 43
MINUS == 45
ZERO == 48
INT_MAX == 2147483647
INT_MIN == (-INT_MAX) - 1

Types == {"string", "int32_t", "char"}

\* <cctype> isspace in the "C" locale, which strtol uses to skip leading blanks
isspace(ch) == ch \in {9, 10, 11, 12, 13, SPACE}

isdigit(ch) == ch >= ZERO /\ ch <= ZERO + 9

----------------------------------------------------------------------------
\* Format: to_string / get_string

\* the decimal digits of n >= 0
RECURSIVE Digits(_)
Digits(n) ==
    IF n < 10 THEN <<ZERO + n>> ELSE Digits(n \div 10) \o <<ZERO + (n % 10)>>

\* the decimal digits of |n| for n <= 0, computed without negating INT_MIN
RECURSIVE NegDigits(_)
NegDigits(n) ==
    LET d == (10 - (n % 10)) % 10
        q == (n + d) \div 10
    IN  IF q = 0 THEN <<ZERO + d>> ELSE NegDigits(q) \o <<ZERO + d>>

\* boost::convert<std::string>(x, lexical_cast) for the three field types
lexical_cast(type, x) ==
    CASE type = "int32_t" -> IF x < 0 THEN <<MINUS>> \o NegDigits(x) ELSE Digits(x)
      [] type = "string"  -> x
      [] type = "char"    -> <<x>>

\* std::string::pop_back
pop_back(s) == SubSeq(s, 1, Len(s) - 1)

\* a variant that keeps the separator after the last field
RECURSIVE get_string_keeps_tab(_, _, _, _)
get_string_keeps_tab(N, sch, d, rhs) ==
    IF N > Len(sch)
    THEN rhs
    ELSE get_string_keeps_tab(N + 1, sch, d, rhs \o lexical_cast(sch[N], d[N]) \o <<TAB>>)

\* a variant that writes every integer field without its sign
RECURSIVE get_string_unsigned(_, _, _, _)
get_string_unsigned(N, sch, d, rhs) ==
    IF N > Len(sch)
    THEN pop_back(rhs)
    ELSE get_string_unsigned(N + 1, sch, d,
            rhs \o (IF sch[N] = "int32_t" /\ d[N] < 0
                    THEN NegDigits(d[N])
                    ELSE lexical_cast(sch[N], d[N])) \o <<TAB>>)

\* get_string<N>: append each field's text and a tab, drop the last tab
RECURSIVE get_string(_, _, _, _)
get_string(N, sch, d, rhs) ==
    IF N > Len(sch)
    THEN pop_back(rhs)
    ELSE get_string(N + 1, sch, d, rhs \o lexical_cast(sch[N], d[N]) \o <<TAB>>)

to_string(sch, d) == get_string(1, sch, d, <<>>)

----------------------------------------------------------------------------
\* Parse: getline, boost::split, stoi, to_tuple

\* the position of the first ch in s after position from, 0 if there is none
RECURSIVE find(_, _, _)
find(s, ch, from) ==
    IF from >= Len(s) THEN 0
    ELSE IF s[from + 1] = ch THEN from + 1
    ELSE find(s, ch, from + 1)

\* a getline that reports an empty line at the end of the data
getline_no_eof(content, pos, eof, fail) ==
    IF pos >= Len(content)
    THEN [ok |-> TRUE, str |-> <<>>, pos |-> pos, eof |-> TRUE, fail |-> FALSE]
    ELSE LET nl == find(content, NL, pos)
         IN  IF nl = 0
             THEN [ok |-> TRUE, str |-> SubSeq(content, pos + 1, Len(content)),
                   pos |-> Len(content), eof |-> TRUE, fail |-> FALSE]
             ELSE [ok |-> TRUE, str |-> SubSeq(content, pos + 1, nl - 1),
                   pos |-> nl, eof |-> FALSE, fail |-> FALSE]

\* std::getline(rhs, in): the sentry fails on a stream that is not good();
\* otherwise characters are extracted up to and including the next newline,
\* eofbit is set when the data ends first, failbit when nothing was extracted
getline(content, pos, eof, fail) ==
    IF eof \/ fail
    THEN [ok |-> FALSE, str |-> <<>>, pos |-> pos, eof |-> eof, fail |-> TRUE]
    ELSE IF pos >= Len(content)
    THEN [ok |-> FALSE, str |-> <<>>, pos |-> pos, eof |-> TRUE, fail |-> TRUE]
    ELSE LET nl == find(content, NL, pos)
         IN  IF nl = 0
             THEN [ok |-> TRUE, str |-> SubSeq(content, pos + 1, Len(content)),
                   pos |-> Len(content), eof |-> TRUE, fail |-> FALSE]
             ELSE [ok |-> TRUE, str |-> SubSeq(content, pos + 1, nl - 1),
                   pos |-> nl, eof |-> FALSE, fail |-> FALSE]

\* boost::split(v, in, is_any_of("\t")): one token more than there are tabs
RECURSIVE split(_)
split(s) ==
    LET t == find(s, TAB, 0)
    IN  IF t = 0 THEN <<s>>
        ELSE <<SubSeq(s, 1, t - 1)>> \o split(SubSeq(s, t + 1, Len(s)))

\* the number of leading characters of s that satisfy isspace
RECURSIVE blanks(_)
blanks(s) == IF s # <<>> /\ isspace(s[1]) THEN 1 + blanks(Tail(s)) ELSE 0

\* strtol's digit loop, accumulating the negated magnitude so that the value
\* INT_MIN is representable; acc = 1 marks a value outside the int range
RECURSIVE accumulate(_, _, _)
accumulate(s, acc, n) ==
    IF s = <<>> \/ ~isdigit(s[1]) THEN [acc |-> acc, n |-> n]
    ELSE LET dg == s[1] - ZERO
             over == acc = 1 \/ acc < -214748364 \/ (acc = -214748364 /\ dg > 8)
         IN  accumulate(Tail(s), IF over THEN 1 ELSE acc * 10 - dg, n + 1)

\* a variant that keeps strtol's clamped value instead of throwing
stoi_clamps(str) ==
    LET s1   == SubSeq(str, blanks(str) + 1, Len(str))
        sign == s1 # <<>> /\ s1[1] \in {PLUS, MINUS}
        neg  == s1 # <<>> /\ s1[1] = MINUS
        s2   == IF sign THEN Tail(s1) ELSE s1
        a    == accumulate(s2, 0, 0)
        over == a.acc = 1 \/ (~neg /\ a.acc = INT_MIN)
    IN  IF a.n = 0 THEN [status |-> "invalid_argument", val |-> 0]
        ELSE IF over THEN [status |-> "ok", val |-> IF neg THEN INT_MIN ELSE INT_MAX]
        ELSE [status |-> "ok", val |-> IF neg THEN a.acc ELSE -a.acc]

\* std::stoi(str): skips leading blanks, takes an optional sign and the longest
\* run of digits, ignores what follows; throws invalid_argument when there is
\* no digit and out_of_range when the value does not fit an int
stoi(str) ==
    LET s1   == SubSeq(str, blanks(str) + 1, Len(str))
        sign == s1 # <<>> /\ s1[1] \in {PLUS, MINUS}
        neg  == s1 # <<>> /\ s1[1] = MINUS
        s2   == IF sign THEN Tail(s1) ELSE s1
        a    == accumulate(s2, 0, 0)
        over == a.acc = 1 \/ (~neg /\ a.acc = INT_MIN)
    IN  IF a.n = 0 THEN [status |-> "invalid_argument", val |-> 0]
        ELSE IF over THEN [status |-> "out_of_range", val |-> 0]
        ELSE [status |-> "ok", val |-> IF neg THEN a.acc ELSE -a.acc]

\* what rhs[N] may yield once N is past the end of the vector, besides a crash
Garbage == {<<>>, <<ZERO + 5>>}

\* a variant that restores the record when a conversion throws
RECURSIVE to_tuple_rollback(_, _, _, _, _)
to_tuple_rollback(N, rhs, sch, d, u) ==
    IF N > Len(sch) THEN {[data |-> d, result |-> "ok", ub |-> u]}
    ELSE LET past == N > Len(rhs)
             toks == IF past THEN Garbage ELSE {rhs[N]}
             bind(tok) ==
                 IF sch[N] = "int32_t"
                 THEN LET r == stoi(tok)
                      IN  IF r.status # "ok"
                          THEN {[data |-> d, result |-> r.status, ub |-> u \/ past]}
                          ELSE to_tuple_rollback(N + 1, rhs, sch, [d EXCEPT ![N] = r.val], u \/ past)
                 ELSE IF sch[N] = "string"
                 THEN to_tuple_rollback(N + 1, rhs, sch, [d EXCEPT ![N] = tok], u \/ past)
                 ELSE to_tuple_rollback(N + 1, rhs, sch,
                         [d EXCEPT ![N] = IF tok = <<>> THEN NUL ELSE tok[1]], u \/ past)
             outs == UNION {bind(tok) : tok \in toks}
         IN  (IF past THEN {[data |-> d, result |-> "crash", ub |-> TRUE]} ELSE {})
             \cup {IF o.result \in {"invalid_argument", "out_of_range"}
                   THEN [o EXCEPT !.data = d] ELSE o : o \in outs}

\* to_tuple<N>(rhs, i): bind rhs[N] to field N by the field's type, then go on
\* to field N + 1. The result is the set of outcomes: one, unless rhs[N] is
\* past the end of rhs, which is undefined behaviour (a crash, or some string).
\* rhs[N][0] of an empty token is the string's terminating null character.
RECURSIVE to_tuple(_, _, _, _, _)
to_tuple(N, rhs, sch, d, u) ==
    IF N > Len(sch) THEN {[data |-> d, result |-> "ok", ub |-> u]}
    ELSE LET past == N > Len(rhs)
             toks == IF past THEN Garbage ELSE {rhs[N]}
             bind(tok) ==
                 IF sch[N] = "int32_t"
                 THEN LET r == stoi(tok)
                      IN  IF r.status # "ok"
                          THEN {[data |-> d, result |-> r.status, ub |-> u \/ past]}
                          ELSE to_tuple(N + 1, rhs, sch, [d EXCEPT ![N] = r.val], u \/ past)
                 ELSE IF sch[N] = "string"
                 THEN to_tuple(N + 1, rhs, sch, [d EXCEPT ![N] = tok], u \/ past)
                 ELSE to_tuple(N + 1, rhs, sch,
                         [d EXCEPT ![N] = IF tok = <<>> THEN NUL ELSE tok[1]], u \/ past)
         IN  (IF past THEN {[data |-> d, result |-> "crash", ub |-> TRUE]} ELSE {})
             \cup UNION {bind(tok) : tok \in toks}

----------------------------------------------------------------------------
\* Ordering: operator<

\* std::string's operator<: the first differing character decides, then length
RECURSIVE string_less(_, _)
string_less(s, t) ==
    IF t = <<>> THEN FALSE
    ELSE IF s = <<>> THEN TRUE
    ELSE IF s[1] # t[1] THEN s[1] < t[1]
    ELSE string_less(Tail(s), Tail(t))

\* the field type's own operator<
field_less(type, x, y) == IF type = "string" THEN string_less(x, y) ELSE x < y

\* a variant that lets the first field alone decide
tuple_less_first(N, sch, t, u) ==
    N <= Len(sch) /\ field_less(sch[N], t[N], u[N])

\* std::tuple's operator< from position N on, as b1.data < b2.data runs it
RECURSIVE tuple_less(_, _, _, _)
tuple_less(N, sch, t, u) ==
    IF N > Len(sch) THEN FALSE
    ELSE \/ field_less(sch[N], t[N], u[N])
         \/ /\ ~field_less(sch[N], u[N], t[N])
            /\ tuple_less(N + 1, sch, t, u)

----------------------------------------------------------------------------
\* Batch output: dump

\* a variant that skips a record equal to the one written before it
RECURSIVE dump_loop_dedup(_, _, _, _)
dump_loop_dedup(k, sch, cont, s) ==
    IF k > Len(cont) THEN s
    ELSE dump_loop_dedup(k + 1, sch, cont,
            IF k > 1 /\ cont[k] = cont[k - 1] THEN s
            ELSE s \o to_string(sch, cont[k]) \o <<NL>>)

\* dump's loop from element k on: s += (i.to_string() + '\n')
RECURSIVE dump_loop(_, _, _, _)
dump_loop(k, sch, cont, s) ==
    IF k > Len(cont) THEN s
    ELSE dump_loop(k + 1, sch, cont, s \o to_string(sch, cont[k]) \o <<NL>>)

----------------------------------------------------------------------------
\* Values the behaviours start from

\* the default TUPLETYPE: chromosome name, start, end
Canonical == <<"string", "int32_t", "int32_t">>

\* every schema of 1 .. MaxFields fields, the default one, and one with a
\* character field between a text and an integer field
MaxFields == 2
Schemas ==
    UNION {[1..n -> Types] : n \in 1..MaxFields}
        \cup {Canonical, <<"string", "char", "int32_t">>}

\* Bed(): value-initialised fields
Default(sch) ==
    [k \in 1..Len(sch) |->
        CASE sch[k] = "string" -> <<>> [] sch[k] = "int32_t" -> 0 [] sch[k] = "char" -> NUL]

\* Bed(TUPLETYPE&) from ("z", 7, 'z'): a record unlike anything parsed below
Prior(sch) ==
    [k \in 1..Len(sch) |->
        CASE sch[k] = "string" -> <<122>> [] sch[k] = "int32_t" -> 7 [] sch[k] = "char" -> 122]

\* every record of schema sch whose field k is drawn from vals[sch[k]]
RECURSIVE tuples(_, _)
tuples(sch, vals) ==
    IF Len(sch) = 0 THEN {<<>>}
    ELSE {<<x>> \o r : x \in vals[sch[1]], r \in tuples(Tail(sch), vals)}

\* field values for the round trip: empty text, "a", a tab, "a\nb", a null
\* character; the int32 limits, -1, 0; the characters NUL, tab, newline, 'a'
Values ==
    [t \in Types |->
        CASE t = "string"  -> {<<>>, <<97>>, <<TAB>>, <<97, NL, 98>>, <<NUL>>}
          [] t = "int32_t" -> {INT_MIN, -1, 0, INT_MAX}
          [] t = "char"    -> {NUL, TAB, NL, 97}]

\* field values for the container and the comparisons: "a", "ab"; -1, 12; 'a', 'b'
SmallValues ==
    [t \in Types |->
        CASE t = "string"  -> {<<97>>, <<97, 98>>}
          [] t = "int32_t" -> {-1, 12}
          [] t = "char"    -> {97, 98}]

\* the tokens of an input line joined by tabs
RECURSIVE join(_)
join(toks) ==
    IF Len(toks) = 0 THEN <<>>
    ELSE IF Len(toks) = 1 THEN toks[1]
    ELSE toks[1] \o <<TAB>> \o join(Tail(toks))

\* a well-formed token of each type: "a", "12", "b"
Good(type) ==
    CASE type = "string" -> <<97>> [] type = "int32_t" -> <<49, 50>> [] type = "char" -> <<98>>

\* the tokens tried at a position of each type. int32: "12", "-1", "12a",
\* " 12", "+", "", "a", "+5", "007", "2147483647", "-2147483648", "2147483648", "-2147483649",
\* "99999999999"
Tokens(type) ==
    CASE type = "string"  -> {<<>>, <<97>>}
      [] type = "char"    -> {<<>>, <<98>>, <<98, 99>>}
      [] type = "int32_t" ->
            {<<49, 50>>, <<MINUS, 49>>, <<49, 50, 97>>, <<SPACE, 49, 50>>, <<PLUS>>, <<>>, <<97>>,
             <<PLUS, 53>>, <<ZERO, ZERO, 55>>,
             <<50, 49, 52, 55, 52, 56, 51, 54, 52, 55>>,
             <<MINUS, 50, 49, 52, 55, 52, 56, 51, 54, 52, 56>>,
             <<50, 49, 52, 55, 52, 56, 51, 54, 52, 56>>,
             <<MINUS, 50, 49, 52, 55, 52, 56, 51, 54, 52, 57>>,
             <<57, 57, 57, 57, 57, 57, 57, 57, 57, 57, 57>>}

\* the input lines for schema sch: the well-formed line with one token
\* replaced, its proper prefixes (the empty line among them), and the
\* well-formed line with one token too many
Lines(sch) ==
    LET n    == Len(sch)
        good == [k \in 1..n |-> Good(sch[k])]
    IN  UNION {{join([good EXCEPT ![k] = t]) : t \in Tokens(sch[k])} : k \in 1..n}
        \cup {join(SubSeq(good, 1, k)) : k \in 0..(n - 1)}
        \cup {join(Append(good, <<97>>))}

----------------------------------------------------------------------------
\* Operations

Reads == {"get_obj", ">>"}
Writes == {"dump", "<<"}

\* the body of get_obj(rhs, i), which operator>> calls as it is: read a line;
\* if there is one, split it and bind its tokens
Read(name) ==
    /\ result # "crash"
    /\ LET g == getline(is, 0, eofbit, failbit)
       IN  /\ is' = SubSeq(is, g.pos + 1, Len(is))
           /\ eofbit' = g.eof
           /\ failbit' = g.fail
           /\ in' = g.str
           /\ IF g.ok
              THEN /\ v' = split(g.str)
                   /\ \E o \in to_tuple(1, split(g.str), schema, data, FALSE) :
                        /\ data' = o.data
                        /\ result' = o.result
                        /\ ub' = (ub \/ o.ub)
              ELSE /\ v' = <<>>
                   /\ data' = data
                   /\ result' = "no_line"
                   /\ ub' = ub
    /\ op' = name
    /\ UNCHANGED <<schema, c, os, cmp, lt>>

get_obj == Read("get_obj")

\* operator>>(rhs, i)
ShiftIn == Read(">>")

\* the caller's input: the next line of the stream is fixed when the reader
\* gets to it, with its newline or, as the last line of the data, without.
\* get_obj's locals are gone by then.
Arrive ==
    /\ result # "crash"
    /\ is = <<>> /\ ~eofbit /\ ~failbit
    /\ op \in {"init"} \cup Reads
    /\ \E l \in Lines(schema) : is' \in {l \o <<NL>>} \cup (IF l = <<>> THEN {} ELSE {l})
    /\ op' = "arrive"
    /\ in' = <<>> /\ v' = <<>> /\ result' = "none"
    /\ UNCHANGED <<schema, data, c, os, eofbit, failbit, ub, cmp, lt>>

\* the records compared: i, then the elements of c
Pool == <<data>> \o c

\* operator<(b1, b2) on two records of the pool
Less ==
    /\ \E i \in 1..Len(Pool), j \in 1..Len(Pool) :
        /\ cmp' = <<i, j>>
        /\ lt' = tuple_less(1, schema, Pool[i], Pool[j])
    /\ op' = "<"
    /\ UNCHANGED <<schema, data, c, os, is, eofbit, failbit, in, v, result, ub>>

\* the most characters the output stream may hold before a further write
MaxOut == 4

\* operator<<(rhs, i) for a record i of the pool: rhs << i.to_string()
ShiftOut ==
    /\ op \in {"init"} \cup Writes
    /\ Len(os) < MaxOut
    /\ \E k \in 1..Len(Pool) : os' = os \o to_string(schema, Pool[k])
    /\ op' = "<<"
    /\ UNCHANGED <<schema, data, c, is, eofbit, failbit, in, v, result, ub, cmp, lt>>

\* dump(rhs, c): rhs << s, s being every record's line
dump ==
    /\ op \in {"init"} \cup Writes
    /\ Len(os) < MaxOut
    /\ os' = os \o dump_loop(1, schema, c, <<>>)
    /\ op' = "dump"
    /\ UNCHANGED <<schema, data, c, is, eofbit, failbit, in, v, result, ub, cmp, lt>>

\* the caller opens what was written as an input stream
Feed ==
    /\ op \in Writes
    /\ is' = os
    /\ eofbit' = FALSE /\ failbit' = FALSE
    /\ op' = "open"
    /\ UNCHANGED <<schema, data, c, os, in, v, result, ub, cmp, lt>>

----------------------------------------------------------------------------
\* Specifications

InitCommon ==
    /\ os = <<>> /\ is = <<>>
    /\ eofbit = FALSE /\ failbit = FALSE
    /\ in = <<>> /\ v = <<>>
    /\ op = "init" /\ result = "none" /\ ub = FALSE
    /\ cmp = <<>> /\ lt = FALSE

\* reading: a record, default-constructed or built from a tuple, and an
\* input stream
Init ==
    /\ schema \in Schemas
    /\ data \in {Default(schema), Prior(schema)}
    /\ c = <<>>
    /\ InitCommon

Next == Arrive \/ get_obj \/ ShiftIn

Spec == Init /\ [][Next]_vars

\* writing one record and reading it back
MaxRecords == 2

InitRoundTrip ==
    /\ schema \in Schemas
    /\ data \in {Default(schema), Prior(schema)}
    /\ c \in {<<r>> : r \in tuples(schema, Values)}
    /\ InitCommon

\* the text is read only once it has been written and opened
Opened == op \in {"open"} \cup Reads

NextRoundTrip == dump \/ ShiftOut \/ Feed \/ (Opened /\ get_obj) \/ (Opened /\ ShiftIn)

SpecRoundTrip == InitRoundTrip /\ [][NextRoundTrip]_vars

\* writing a container of up to MaxRecords records
InitBatch ==
    /\ schema \in Schemas
    /\ data = Prior(schema)
    /\ c \in UNION {[1..n -> tuples(schema, SmallValues)] : n \in 0..MaxRecords}
    /\ InitCommon

NextBatch == ShiftOut \/ dump

SpecBatch == InitBatch /\ [][NextBatch]_vars

\* comparing three records
InitOrder ==
    /\ schema \in Schemas
    /\ data \in tuples(schema, SmallValues)
    /\ c \in [1..2 -> tuples(schema, SmallValues)]
    /\ InitCommon

NextOrder == Less

SpecOrder == InitOrder /\ [][NextOrder]_vars

----------------------------------------------------------------------------
\* Vocabulary of the properties

Thrown == {"invalid_argument", "out_of_range"}

Range(f) == {f[k] : k \in DOMAIN f}

IntFields == {k \in 1..Len(schema) : schema[k] = "int32_t"}
CharFields == {k \in 1..Len(schema) : schema[k] = "char"}

\* a read has just bound, or tried to bind, the tokens of a line
Parsed == op \in Reads /\ result # "no_line"

\* tok without its leading blanks and its sign
Unsigned(tok) ==
    LET s1 == SubSeq(tok, blanks(tok) + 1, Len(tok))
    IN  IF s1 # <<>> /\ s1[1] \in {PLUS, MINUS} THEN Tail(s1) ELSE s1

Negative(tok) == blanks(tok) < Len(tok) /\ tok[blanks(tok) + 1] = MINUS

RECURSIVE DigitPrefix(_)
DigitPrefix(s) ==
    IF s = <<>> \/ ~isdigit(s[1]) THEN <<>> ELSE <<s[1]>> \o DigitPrefix(Tail(s))

RECURSIVE StripZeros(_)
StripZeros(s) == IF s # <<>> /\ s[1] = ZERO THEN StripZeros(Tail(s)) ELSE s

\* tok is an optionally signed decimal integer and nothing else
IsDecimal(tok) ==
    LET body == IF tok # <<>> /\ tok[1] \in {PLUS, MINUS} THEN Tail(tok) ELSE tok
    IN  body # <<>> /\ \A k \in 1..Len(body) : isdigit(body[k])

\* tok holds no number at all
NonNumeric(tok) == DigitPrefix(Unsigned(tok)) = <<>>

\* the number tok holds lies outside the int32 range: its digits are more,
\* or sort after, those of 2147483647 (2147483648 after a minus sign)
TooBig(tok) ==
    LET m   == StripZeros(DigitPrefix(Unsigned(tok)))
        lim == <<50, 49, 52, 55, 52, 56, 51, 54, 52, IF Negative(tok) THEN 56 ELSE 55>>
    IN  Len(m) > 10 \/ (Len(m) = 10 /\ string_less(lim, m))

\* minus the number a digit string denotes
RECURSIVE NegValue(_)
NegValue(ds) ==
    IF ds = <<>> THEN 0
    ELSE NegValue(SubSeq(ds, 1, Len(ds) - 1)) * 10 - (ds[Len(ds)] - ZERO)

\* the number a token that holds one in range denotes
Value(tok) ==
    LET n == NegValue(DigitPrefix(Unsigned(tok)))
    IN  IF Negative(tok) THEN n ELSE -n

\* the value a token gives a field of the type
Bound(type, tok) ==
    CASE type = "string"  -> tok
      [] type = "char"    -> IF tok = <<>> THEN NUL ELSE tok[1]
      [] type = "int32_t" -> Value(tok)

TabCount(s) == Cardinality({k \in 1..Len(s) : s[k] = TAB})

EndsWith(s, ch) == s # <<>> /\ s[Len(s)] = ch

\* the text of field k of record r
FieldText(r, k) == lexical_cast(schema[k], r[k])

\* no field of r holds a tab / a tab or a newline
NoTab(r) == \A k \in 1..Len(schema) : TAB \notin Range(FieldText(r, k))
NoSeparator(r) == \A k \in 1..Len(schema) : Range(FieldText(r, k)) \cap {TAB, NL} = {}

\* the one record of c has just been dumped to an empty stream
Written == op = "dump" /\ Len(c) = 1 /\ os = to_string(schema, c[1]) \o <<NL>>

\* the text of the one record of c was written as a line, with its newline
\* or without, then opened and read from
ReadBack ==
    /\ op \in Reads /\ Len(c) = 1
    /\ os \in {to_string(schema, c[1]) \o <<NL>>, to_string(schema, c[1])}

----------------------------------------------------------------------------
\* Properties

\* C1 as stated: a record of any field values, written as one line and read
\* back into any target record, comes back field by field equal.
RoundTripAnyValues == ReadBack => data = c[1]

\* C1 amended: a record whose fields hold no tab and no newline character,
\* written as one line (not an empty text without its newline) and read
\* back into any target record, comes back field by field equal, without an
\* exception or undefined behaviour.
RoundTripNoSeparator ==
    (ReadBack /\ NoSeparator(c[1]) /\ os # <<>>)
        => (data = c[1] /\ result \in {"ok", "no_line"} /\ ~ub)

\* C1 witness: the record ("", NUL, INT_MIN) has been written and read back
\* into a target that differed from it.
RoundTripWitness ==
    /\ schema = <<"string", "char", "int32_t">>
    /\ ReadBack /\ result = "ok"
    /\ c[1] = <<<<>>, NUL, INT_MIN>> /\ data = c[1]

\* C2 as stated: a read that binds a token that is not a complete, optionally
\* signed decimal integer to an int32 field ends in a reported failure.
MalformedIntegerReported ==
    (Parsed /\ ~ub /\ Len(v) = Len(schema) /\ \E k \in IntFields : ~IsDecimal(v[k]))
        => result \in Thrown

\* C3 as stated: a read of a line whose token count differs from the field
\* count reports it, and never indexes the token vector past its end.
FieldCountMismatchReported ==
    (Parsed /\ Len(v) # Len(schema)) => (result # "ok" /\ ~ub)

\* C4: a read on a stream with no further line leaves every field as it was,
\* reports no line, and leaves the stream failed.
EndOfStreamKeepsRecord ==
    [][(op' \in Reads /\ (is = <<>> \/ eofbit \/ failbit))
        => (data' = data /\ result' = "no_line" /\ failbit')]_vars

\* C4 witness: the stream ran dry after successful reads had changed the record.
EndOfStreamWitness ==
    /\ op \in Reads /\ result = "no_line" /\ failbit /\ ~ub
    /\ data \notin {Default(schema), Prior(schema)}

\* the lines of the first k records of c, one after the other
RECURSIVE LinesUpTo(_)
LinesUpTo(k) ==
    IF k = 0 THEN <<>> ELSE LinesUpTo(k - 1) \o to_string(schema, c[k]) \o <<NL>>

\* C5: dump appends every record's line, in container order, duplicates
\* included, and leaves the container as it was.
DumpAppendsInOrder ==
    [][op' = "dump" => (os' = os \o LinesUpTo(Len(c)) /\ c' = c)]_vars

\* C5 witness: a container holding the same record twice was dumped after
\* something else had been written.
DumpWitness ==
    /\ op = "dump" /\ Len(c) = 2 /\ c[1] = c[2]
    /\ Len(os) > Len(LinesUpTo(2))
    /\ SubSeq(os, Len(os) - Len(LinesUpTo(2)) + 1, Len(os)) = LinesUpTo(2)

\* the natural order of a field type: numbers by value, texts by the first
\* differing character, a proper prefix first
NaturalLess(type, x, y) ==
    IF type = "string"
    THEN \E k \in 1..Len(y) :
            /\ k - 1 <= Len(x)
            /\ SubSeq(x, 1, k - 1) = SubSeq(y, 1, k - 1)
            /\ (k > Len(x) \/ x[k] < y[k])
    ELSE x < y

\* lexicographic: the first field in which the records differ decides
LexLess(a, b) ==
    \E k \in 1..Len(schema) :
        /\ \A j \in 1..(k - 1) : a[j] = b[j]
        /\ NaturalLess(schema[k], a[k], b[k])

\* C6: operator< is the lexicographic comparison of the fields, of any two
\* records exactly one is less or they are equal, and it is transitive.
OrderIsLexicographicAndTotal ==
    /\ op = "<" => lt = LexLess(Pool[cmp[1]], Pool[cmp[2]])
    /\ \A a, b \in Range(Pool) :
        /\ tuple_less(1, schema, a, b) = LexLess(a, b)
        /\ Cardinality({x \in {1, 2, 3} :
                \/ x = 1 /\ tuple_less(1, schema, a, b)
                \/ x = 2 /\ tuple_less(1, schema, b, a)
                \/ x = 3 /\ a = b}) = 1
    /\ \A a, b, d \in Range(Pool) :
        (tuple_less(1, schema, a, b) /\ tuple_less(1, schema, b, d))
            => tuple_less(1, schema, a, d)

\* C6 witness: a comparison decided by a later field, among three records
\* in a strict chain.
OrderWitness ==
    /\ op = "<" /\ lt /\ Len(schema) >= 2
    /\ Pool[cmp[1]][1] = Pool[cmp[2]][1]
    /\ tuple_less(1, schema, Pool[1], Pool[2])
    /\ tuple_less(1, schema, Pool[2], Pool[3])

\* the tokens "2147483647" and "-2147483648"
MaxToken == <<50, 49, 52, 55, 52, 56, 51, 54, 52, 55>>
MinToken == <<MINUS, 50, 49, 52, 55, 52, 56, 51, 54, 52, 56>>

\* C7: a line whose integer tokens are the int32 limits parses and binds
\* exactly those values, which format back to the tokens; a decimal token
\* outside the int32 range ends the read in a thrown out_of_range or an
\* earlier failure, and its field keeps the value it had.
IntegerBoundary ==
    [][(op' \in Reads /\ result' # "no_line" /\ Len(v') = Len(schema)) =>
        /\ (\A k \in IntFields : v'[k] \in {MaxToken, MinToken, Good("int32_t")})
                => result' = "ok"
        /\ \A k \in IntFields :
            /\ (result' = "ok" /\ v'[k] = MaxToken) => data'[k] = INT_MAX
            /\ (result' = "ok" /\ v'[k] = MinToken) => data'[k] = INT_MIN
            /\ (result' = "ok" /\ v'[k] \in {MaxToken, MinToken})
                    => lexical_cast("int32_t", data'[k]) = v'[k]
            /\ (IsDecimal(v'[k]) /\ TooBig(v'[k]))
                    => (result' \in Thrown /\ data'[k] = data[k])
            /\ (IsDecimal(v'[k]) /\ TooBig(v'[k])
                    /\ \A j \in IntFields : j < k => ~NonNumeric(v'[j]))
                    => result' = "out_of_range"]_vars

\* C7 witness: "2147483648" was refused for a field that holds INT_MAX from
\* an earlier line.
IntegerBoundaryWitness ==
    /\ Parsed /\ result = "out_of_range" /\ Len(v) = Len(schema)
    /\ \E k \in IntFields :
        v[k] = <<50, 49, 52, 55, 52, 56, 51, 54, 52, 56>> /\ data[k] = INT_MAX

\* C8 as stated: whatever the field values, the line written for r holds
\* field_count - 1 tabs, splits into the field_count field texts in order,
\* and ends with neither a tab nor a newline.
FormatFieldCountAnyValues ==
    Written =>
        LET s == pop_back(os)
        IN  /\ TabCount(s) = Len(schema) - 1
            /\ split(s) = [k \in 1..Len(schema) |-> FieldText(c[1], k)]
            /\ ~EndsWith(s, TAB) /\ ~EndsWith(s, NL)

\* C8 amended: for a record whose fields hold no tab, the line written holds
\* field_count - 1 tabs and splits into the field_count field texts in order;
\* it ends with a tab only when the last of several fields is an empty text,
\* and with a newline only when the last field's own text ends with one.
FormatFieldCountNoTab ==
    (Written /\ NoTab(c[1])) =>
        LET s == pop_back(os)
            n == Len(schema)
        IN  /\ TabCount(s) = n - 1
            /\ split(s) = [k \in 1..n |-> FieldText(c[1], k)]
            /\ EndsWith(s, TAB) <=> (n >= 2 /\ FieldText(c[1], n) = <<>>)
            /\ EndsWith(s, NL) <=> EndsWith(FieldText(c[1], n), NL)

\* C8 witness: the line of a tab-free record of several fields, the last an
\* empty text, has been written.
FormatFieldCountWitness ==
    /\ Written /\ NoTab(c[1]) /\ Len(schema) >= 2
    /\ schema[Len(schema)] = "string" /\ c[1][Len(schema)] = <<>>

\* C9 as stated: a read that binds an empty token to a character field ends
\* in a reported failure.
EmptyCharacterTokenReported ==
    (Parsed /\ ~ub /\ Len(v) = Len(schema) /\ \E k \in CharFields : v[k] = <<>>)
        => result # "ok"

\* C10: when a line of field_count tokens makes an integer conversion throw
\* at position k, the fields before k hold what the line's tokens give them,
\* the fields from k on hold what they held before, and the line is consumed.
PartialOverwrite ==
    [][(op' \in Reads /\ result' \in Thrown /\ Len(v') = Len(schema)) =>
        /\ \E k \in IntFields :
            /\ NonNumeric(v'[k]) \/ TooBig(v'[k])
            /\ result' = (IF NonNumeric(v'[k]) THEN "invalid_argument" ELSE "out_of_range")
            /\ \A j \in 1..(k - 1) : data'[j] = Bound(schema[j], v'[j])
            /\ \A j \in k..Len(schema) : data'[j] = data[j]
        /\ v' = split(in')
        /\ is \in {in' \o <<NL>> \o is', in' \o is'}
        /\ Len(is') < Len(is)]_vars

\* C10 witness: under the default schema a line failed at its second token:
\* the name is the line's, start and end are the earlier ones.
PartialOverwriteWitness ==
    /\ Parsed /\ result \in Thrown /\ schema = Canonical /\ Len(v) = 3
    /\ data = <<<<97>>, 7, 7>>

====
